---- MODULE Spec2Model ----
(***************************************************************************)
(* Bloom Energy (BE) impact alert monitor (src/index.js).                  *)
(*                                                                         *)
(* One run of runMonitor loads the last-check state, calls the four        *)
(* checkers in sequence, mails one digest when any alert was returned and  *)
(* overwrites the state file.  The external world (the four feeds, the     *)
(* wall clock, the state file as found on disk, the outcome of each        *)
(* network call) is the model's input.                                     *)
(*                                                                         *)
(* Representation.  Time is a tick counter; a calendar day is TicksPerDay  *)
(* ticks, and a date found in a feed is a day number.  Text that the code  *)
(* only copies is a sequence of word tokens; text that the code parses     *)
(* (the share amount) is a sequence of characters.  An alert string is a   *)
(* record of the pieces the code interpolates into it.  The sentiment      *)
(* score comes from the vader library and is an input, in hundredths.      *)
(* Prices are in cents; the percent change is the exact one, with the      *)
(* rounding of the double computation recorded for the model's prices      *)
(* where it decides the comparison.  fs.writeFile is taken to succeed.     *)
(***************************************************************************)
EXTENDS Integers, Sequences, FiniteSets, TLC

VARIABLES
    now,          \* wall clock, in ticks
    stateFile,    \* content of state.json on disk
    pc,           \* position of runMonitor
    state,        \* runMonitor's `state` (what loadState returned)
    alerts,       \* runMonitor's `alerts` array
    returned,     \* what each checker call of this run returned
    errLog,       \* console.error lines of this run, by origin
    mailbox,      \* every transporter.sendMail call so far
    runNo,        \* number of runs started
    insiderFeed,  \* EDGAR RSS items, with the filing detail behind each link
    filingsFeed,  \* data.filings.recent of the submissions index
    newsFeed,     \* data.articles of the news search
    priceFeed     \* data['Time Series (Daily)'], in the order of its keys

vars == << now, stateFile, pc, state, alerts, returned, errLog, mailbox, runNo,
           insiderFeed, filingsFeed, newsFeed, priceFeed >>

world == << insiderFeed, filingsFeed, newsFeed, priceFeed >>

----------------------------------------------------------------------------
(* Bounds of the model *)

TicksPerDay == 2
MaxTime == 4
MaxRuns == 2
MaxTail == 2

(* Program constants *)

SHARE_THRESHOLD == 1000
PRICE_THRESHOLD == 5
NEWS_THRESHOLD == 30
INSIDER_LIMIT == 50
NEWS_LIMIT == 10

STAKEHOLDERS ==
    { <<"KR", "Sridhar">>, <<"Aman", "Joshi">>, <<"Greg", "Cameron">>,
      <<"Ravi", "Prasher">>, <<"Satish", "Chitoori">> }

NoTime == -1
NoDate == -1
NoFail == -1
NoDesc == << "undefined" >>

----------------------------------------------------------------------------
(* Sequences and text *)

Min(a, b) == IF a <= b THEN a ELSE b
Abs(x) == IF x < 0 THEN -x ELSE x

Slice(s, n) == SubSeq(s, 1, Min(n, Len(s)))

\* String.prototype.includes on token (or character) sequences
Includes(text, pat) ==
    \E i \in 1..(Len(text) - Len(pat) + 1) : SubSeq(text, i, i + Len(pat) - 1) = pat

Alert(cat, label, text, num, close, date) ==
    [cat |-> cat, label |-> label, text |-> text, num |-> num,
     close |-> close, date |-> date]

\* dayjs(lastCheck).format(...): the calendar day of lastCheck; dayjs(undefined)
\* is the current time
SinceDay(lastCheck, t) ==
    IF lastCheck = NoTime THEN t \div TicksPerDay ELSE lastCheck \div TicksPerDay

----------------------------------------------------------------------------
(* 1. Insider transactions: checkInsiderTransactions *)

Digit == [c \in {"0", "1", "2", "3", "4", "5", "6", "7", "8", "9"} |->
            CASE c = "0" -> 0 [] c = "1" -> 1 [] c = "2" -> 2 [] c = "3" -> 3
              [] c = "4" -> 4 [] c = "5" -> 5 [] c = "6" -> 6 [] c = "7" -> 7
              [] c = "8" -> 8 [] c = "9" -> 9]

IsDigit(c) == c \in DOMAIN Digit

\* transactionText.replace(/[^0-9.-]/g, '')
StripShareText(text) == SelectSeq(text, LAMBDA c : IsDigit(c) \/ c = "." \/ c = "-")

RECURSIVE DigitPrefix(_)
DigitPrefix(s) ==
    IF s = << >> \/ ~IsDigit(Head(s)) THEN << >>
    ELSE << Head(s) >> \o DigitPrefix(Tail(s))

RECURSIVE DigitValue(_)
DigitValue(ds) ==
    IF ds = << >> THEN 0
    ELSE 10 * DigitValue(SubSeq(ds, 1, Len(ds) - 1)) + Digit[ds[Len(ds)]]

\* parseInt(transactionText.replace(...)) || 0: an optional sign, then the
\* leading digits; NaN (no digit) and 0 both give 0
ParseShares(text) ==
    LET s    == StripShareText(text)
        neg  == s # << >> /\ Head(s) = "-"
        body == IF neg THEN Tail(s) ELSE s
        n    == DigitValue(DigitPrefix(body))
    IN  IF neg THEN -n ELSE n

\* !link || !link.includes('xbrl'), then the date embedded in the link
LinkIsNew(item, since) ==
    /\ item.xbrl
    /\ item.date8 # NoDate
    /\ ~(item.date8 < since)

\* mutant: the threshold itself alerts
InsiderRule_AtLeast(shares, ownerName) ==
    /\ Abs(shares) >= SHARE_THRESHOLD
    /\ \E s \in STAKEHOLDERS : Includes(ownerName, s)

\* Math.abs(shares) > SHARE_THRESHOLD && STAKEHOLDERS.some(s => ownerName.includes(s))
InsiderRule(shares, ownerName) ==
    /\ Abs(shares) > SHARE_THRESHOLD
    /\ \E s \in STAKEHOLDERS : Includes(ownerName, s)

InsiderAlert(item) ==
    LET shares == ParseShares(item.shareText)
        isSale == item.code4 /\ shares > 0
    IN  Alert("INSIDER", IF isSale THEN "Sale" ELSE "Purchase", item.owner,
              Abs(shares), 0, 0)

\* One pass of the for loop from item i on; failAt is the item whose filing
\* detail fetch throws (NoFail: none does).  The catch returns what was pushed.
RECURSIVE InsiderLoop(_, _, _, _, _)
InsiderLoop(items, since, failAt, i, acc) ==
    IF i > Len(items) THEN [alerts |-> acc, failed |-> FALSE]
    ELSE
        LET item == items[i]
        IN  IF ~LinkIsNew(item, since) \/ ~item.form4
            THEN InsiderLoop(items, since, failAt, i + 1, acc)
            ELSE IF failAt = i
            THEN [alerts |-> acc, failed |-> TRUE]
            ELSE IF InsiderRule(ParseShares(item.shareText), item.owner)
            THEN InsiderLoop(items, since, failAt, i + 1, Append(acc, InsiderAlert(item)))
            ELSE InsiderLoop(items, since, failAt, i + 1, acc)

\* failAt = 0: the fetch of the RSS feed itself throws
checkInsiderTransactions(feed, lastCheck, t, failAt) ==
    IF failAt = 0 THEN [alerts |-> << >>, failed |-> TRUE]
    ELSE InsiderLoop(Slice(feed, INSIDER_LIMIT), SinceDay(lastCheck, t), failAt, 1, << >>)

----------------------------------------------------------------------------
(* 2. Earnings and material filings: checkEarningsFilings *)

\* String.prototype.toLowerCase, token by token
LowerToken(tok) ==
    CASE tok = "Earnings" -> "earnings"
      [] tok = "EARNINGS" -> "earnings"
      [] tok = "Quarterly" -> "quarterly"
      [] tok = "Report" -> "report"
      [] OTHER -> tok

\* mutant: the description is searched as it is written
ToLowerCase_Missing(text) == text

ToLowerCase(text) == [i \in 1..Len(text) |-> LowerToken(text[i])]

\* descriptions[i] || ''
DescOf(entry) == IF entry.desc = NoDesc THEN << >> ELSE entry.desc

\* mutant: a filing of lastCheck's own day counts as seen
FiledBefore_SameDayOld(entry, since) == entry.date <= since

\* dayjs(date).isBefore(since)
FiledBefore(entry, since) == entry.date < since

\* ['8-K', '10-Q'].includes(forms[i]) &&
\*   (desc.toLowerCase().includes('earnings') || forms[i] === '10-Q')
FilingRule(entry) ==
    /\ entry.form \in {"8-K", "10-Q"}
    /\ \/ Includes(ToLowerCase(DescOf(entry)), << "earnings" >>)
       \/ entry.form = "10-Q"

FilingAlert(entry) == Alert("FILING", entry.form, DescOf(entry), 0, 0, entry.date)

RECURSIVE FilingsLoop(_, _, _, _)
FilingsLoop(recent, since, i, acc) ==
    IF i > Len(recent) THEN acc
    ELSE IF FiledBefore(recent[i], since) THEN FilingsLoop(recent, since, i + 1, acc)
    ELSE IF FilingRule(recent[i])
    THEN FilingsLoop(recent, since, i + 1, Append(acc, FilingAlert(recent[i])))
    ELSE FilingsLoop(recent, since, i + 1, acc)

\* fail: the fetch throws, or the body has no filings.recent
checkEarningsFilings(recent, lastCheck, t, fail) ==
    IF fail THEN [alerts |-> << >>, failed |-> TRUE]
    ELSE [alerts |-> FilingsLoop(recent, SinceDay(lastCheck, t), 1, << >>),
          failed |-> FALSE]

----------------------------------------------------------------------------
(* 3. News: checkNews *)

\* Math.abs(intensity.compound) > 0.3
NewsRule(compound) == Abs(compound) > NEWS_THRESHOLD

NewsAlert(article) ==
    Alert("NEWS", IF article.compound > 0 THEN "POSITIVE" ELSE "NEGATIVE",
          article.title, 0, 0, 0)

RECURSIVE NewsLoop(_, _, _)
NewsLoop(articles, i, acc) ==
    IF i > Len(articles) THEN acc
    ELSE IF NewsRule(articles[i].compound)
    THEN NewsLoop(articles, i + 1, Append(acc, NewsAlert(articles[i])))
    ELSE NewsLoop(articles, i + 1, acc)

\* mutant: every returned article is scored
FirstArticles_All(articles) == articles

\* data.articles.slice(0, 10)
FirstArticles(articles) == Slice(articles, NEWS_LIMIT)

\* fail: the fetch throws, or the body has no articles
checkNews(articles, fail) ==
    IF fail THEN [alerts |-> << >>, failed |-> TRUE]
    ELSE [alerts |-> NewsLoop(FirstArticles(articles), 1, << >>), failed |-> FALSE]

----------------------------------------------------------------------------
(* 4. Stock price movement: checkStockPrice *)

\* Object.keys(timeSeries).sort().reverse(): the date keys, latest first
RECURSIVE SortedDesc(_)
SortedDesc(dates) ==
    IF dates = {} THEN << >>
    ELSE LET m == CHOOSE d \in dates : \A e \in dates : e <= d
         IN  << m >> \o SortedDesc(dates \ {m})

DateKeys(series) == SortedDesc({series[i].date : i \in 1..Len(series)})

\* timeSeries[date]['4. close']
CloseOn(series, date) ==
    (CHOOSE r \in {series[i] : i \in 1..Len(series)} : r.date = date).close

\* Number.prototype.toFixed(2) of a / b * 100, in hundredths (b > 0)
PctHundredths(a, b) ==
    LET q == (2 * Abs(a) * 10000 + b) \div (2 * b)
    IN  IF a < 0 THEN -q ELSE q

\* changePct = ((close - prevClose) / prevClose) * 100 is computed in IEEE-754
\* doubles, and each of its three operations rounds.  For the closes of the
\* model the computed value is on the same side of the threshold as the exact
\* one, except where the exact change is the threshold itself: there it is
\* computed as 5 or -5 but for the pairs << close, prevClose >> below.
\*   12.60 - 12.00 = 0.5999999999999996, / 12.00 = 0.04999999999999997,
\*   * 100 = 4.9999999999999964
ComputedShort == { << 1260, 1200 >> }

\* Math.abs(changePct) >= PRICE_THRESHOLD
PriceRule(close, prevClose) ==
    LET exact == Abs(close - prevClose) * 100
    IN  \/ exact > PRICE_THRESHOLD * prevClose
        \/ exact = PRICE_THRESHOLD * prevClose /\ << close, prevClose >> \notin ComputedShort

PriceAlert(close, prevClose, date) ==
    Alert("PRICE", IF close - prevClose > 0 THEN "UP" ELSE "DOWN", << >>,
          PctHundredths(close - prevClose, prevClose), close, date)

\* fail: the fetch throws, or the body has no 'Time Series (Daily)'.  With fewer
\* than two date keys `previous` is undefined and reading its close throws.
checkStockPrice(series, fail) ==
    LET dates == DateKeys(series)
    IN  IF fail \/ Len(dates) < 2 THEN [alerts |-> << >>, failed |-> TRUE]
        ELSE LET close     == CloseOn(series, dates[1])
                 prevClose == CloseOn(series, dates[2])
             IN  [alerts |-> IF PriceRule(close, prevClose)
                             THEN << PriceAlert(close, prevClose, dates[1]) >>
                             ELSE << >>,
                  failed |-> FALSE]

----------------------------------------------------------------------------
(* The state file: loadState, saveState *)

FileOf(kind, lastCheck) == [kind |-> kind, lastCheck |-> lastCheck]

\* What is read from state.json.  "missing" and "unreadable": fs.readFile
\* throws; "malformed": JSON.parse throws; "null", "number", "emptyobj": the
\* text parses, to a value that is no object with a lastCheck; "obj": an
\* object with a lastCheck timestamp.
loadState(file, t) ==
    CASE file.kind \in {"missing", "unreadable", "malformed"} ->
            [kind |-> "obj", lastCheck |-> t - TicksPerDay]
      [] file.kind = "null" -> [kind |-> "null", lastCheck |-> NoTime]
      [] file.kind \in {"number", "emptyobj"} -> [kind |-> "value", lastCheck |-> NoTime]
      [] OTHER -> [kind |-> "obj", lastCheck |-> file.lastCheck]

\* { lastCheck: new Date().toISOString() }
saveState(t) == FileOf("obj", t)

NoState == [kind |-> "unset", lastCheck |-> NoTime]
NoReturn == [insider |-> << >>, filings |-> << >>, news |-> << >>, price |-> << >>]

----------------------------------------------------------------------------
(* runMonitor, one action per await *)

\* The scheduler starts the process; runMonitor awaits loadState and then
\* reads state.lastCheck, which throws when state is null.
StepLoad ==
    /\ pc \in {"idle", "done", "crashed"}
    /\ runNo < MaxRuns
    /\ runNo' = runNo + 1
    /\ state' = loadState(stateFile, now)
    /\ pc' = IF state'.kind = "null" THEN "crashed" ELSE "insider"
    /\ alerts' = << >>
    /\ returned' = NoReturn
    /\ errLog' = {}
    /\ UNCHANGED << now, stateFile, mailbox, world >>

\* mutant: a checker's alerts go in front of the earlier ones
Finish_Unshift(who, r, next) ==
    /\ alerts' = r.alerts \o alerts
    /\ returned' = [returned EXCEPT ![who] = r.alerts]
    /\ errLog' = IF r.failed THEN errLog \cup {who} ELSE errLog
    /\ pc' = next
    /\ UNCHANGED << now, stateFile, state, mailbox, runNo, world >>

\* alerts.push(...await check(...)), and the checker's own catch
Finish(who, r, next) ==
    /\ alerts' = alerts \o r.alerts
    /\ returned' = [returned EXCEPT ![who] = r.alerts]
    /\ errLog' = IF r.failed THEN errLog \cup {who} ELSE errLog
    /\ pc' = next
    /\ UNCHANGED << now, stateFile, state, mailbox, runNo, world >>

\* The requests checkInsiderTransactions makes: 0 is the RSS feed, i the
\* filing detail behind item i
InsiderRequests(feed, lastCheck, t) ==
    {0} \cup { i \in 1..Min(Len(feed), INSIDER_LIMIT) :
                 LinkIsNew(feed[i], SinceDay(lastCheck, t)) /\ feed[i].form4 }

StepInsider ==
    /\ pc = "insider"
    /\ \E failAt \in {NoFail} \cup InsiderRequests(insiderFeed, state.lastCheck, now) :
          Finish("insider",
                 checkInsiderTransactions(insiderFeed, state.lastCheck, now, failAt),
                 "filings")

StepFilings ==
    /\ pc = "filings"
    /\ \E fail \in BOOLEAN :
          Finish("filings",
                 checkEarningsFilings(filingsFeed, state.lastCheck, now, fail),
                 "news")

StepNews ==
    /\ pc = "news"
    /\ \E fail \in BOOLEAN :
          Finish("news", checkNews(newsFeed, fail), "price")

StepPrice ==
    /\ pc = "price"
    /\ \E fail \in BOOLEAN :
          Finish("price", checkStockPrice(priceFeed, fail), "notify")

\* mutant: no try around sendMail, a failed delivery rejects runMonitor
sendEmail_Uncaught(body, delivered) ==
    /\ mailbox' = Append(mailbox, [run |-> runNo, body |-> body, delivered |-> delivered])
    /\ errLog' = errLog
    /\ pc' = IF delivered THEN "save" ELSE "crashed"

\* sendEmail: the delivery either succeeds or throws inside the try
sendEmail(body, delivered) ==
    /\ mailbox' = Append(mailbox, [run |-> runNo, body |-> body, delivered |-> delivered])
    /\ errLog' = IF delivered THEN errLog ELSE errLog \cup {"email"}
    /\ pc' = "save"

\* mutant: the digest is sent whether or not there are alerts
StepNotify_SendsAlways ==
    /\ pc = "notify"
    /\ \E delivered \in BOOLEAN : sendEmail(alerts, delivered)
    /\ UNCHANGED << now, stateFile, state, alerts, returned, runNo, world >>

\* if (alerts.length > 0) { await sendEmail(...) } else { ... }
StepNotify ==
    /\ pc = "notify"
    /\ IF Len(alerts) > 0
       THEN \E delivered \in BOOLEAN : sendEmail(alerts, delivered)
       ELSE /\ pc' = "save"
            /\ UNCHANGED << mailbox, errLog >>
    /\ UNCHANGED << now, stateFile, state, alerts, returned, runNo, world >>

StepSave ==
    /\ pc = "save"
    /\ stateFile' = saveState(now)
    /\ pc' = "done"
    /\ UNCHANGED << now, state, alerts, returned, errLog, mailbox, runNo, world >>

\* The wall clock advances at any time
Tick ==
    /\ now < MaxTime
    /\ now' = now + 1
    /\ UNCHANGED << stateFile, pc, state, alerts, returned, errLog, mailbox, runNo, world >>

Next ==
    \/ StepLoad
    \/ StepInsider
    \/ StepFilings
    \/ StepNews
    \/ StepPrice
    \/ StepNotify
    \/ StepSave
    \/ Tick

----------------------------------------------------------------------------
(* Inputs: what the feeds can hold *)

KR == << "KR", "Sridhar" >>
Jane == << "Jane", "Doe" >>

Form4(date8, owner, shareText, code4) ==
    [xbrl |-> TRUE, date8 |-> date8, form4 |-> TRUE, owner |-> owner,
     shareText |-> shareText, code4 |-> code4]

\* an RSS item whose link is no xbrl link
OtherItem == [Form4(1, KR, << "1", "5", "0", "0" >>, TRUE) EXCEPT !.xbrl = FALSE]

InsiderItems ==
    { Form4(1, KR, << "1", "5", "0", "0" >>, TRUE),
      Form4(1, KR, << "5", "0", "0" >>, TRUE),
      Form4(1, KR, << "1", "0", "0", "0" >>, TRUE),
      Form4(1, KR, << "1", ",", "0", "0", "1" >>, TRUE),
      Form4(1, KR, << "-", "1", "5", "0", "0" >>, TRUE),
      Form4(1, KR, << "1", "0", "0", "0", ".", "5" >>, TRUE),
      Form4(1, KR, << >>, TRUE),
      Form4(1, Jane, << "5", "0", "0", "0" >>, TRUE),
      Form4(1, << "Dr", "KR", "Sridhar", "PhD" >>, << "1", "5", "0", "0" >>, FALSE),
      Form4(1, << "Sridhar", "KR" >>, << "1", "5", "0", "0" >>, TRUE),
      Form4(0, KR, << "1", "5", "0", "0" >>, TRUE),
      Form4(2, << "Aman", "Joshi" >>, << "5", "0", "0", "0" >>, TRUE),
      OtherItem,
      [Form4(1, KR, << "1", "5", "0", "0" >>, TRUE) EXCEPT !.date8 = NoDate],
      [Form4(1, KR, << "1", "5", "0", "0" >>, TRUE) EXCEPT !.form4 = FALSE] }

Filing(form, date, desc) == [form |-> form, date |-> date, desc |-> desc]

FilingEntries ==
    { Filing("10-Q", 1, NoDesc),
      Filing("10-Q", 1, << "Quarterly", "Report" >>),
      Filing("10-Q", 0, << "Quarterly", "Report" >>),
      Filing("10-Q", 2, << >>),
      Filing("8-K", 1, << "Q3", "Earnings", "Release" >>),
      Filing("8-K", 1, << "EARNINGS" >>),
      Filing("8-K", 1, << "earnings", "call" >>),
      Filing("8-K", 1, NoDesc),
      Filing("8-K", 1, << "Press", "Release" >>),
      Filing("8-K", 0, << "earnings", "call" >>),
      Filing("8-K", 2, << "Q3", "Earnings", "Release" >>),
      Filing("10-K", 1, << "Annual", "Earnings" >>),
      Filing("4", 1, NoDesc) }

Article(title, compound) == [title |-> title, compound |-> compound]

Articles ==
    { Article(<< "story" >>, c) : c \in {-50, -31, -30, -5, 0, 30, 31, 50} }

\* a strongly positive article, used to fill a long result list
Filler == Article(<< "filler" >>, 80)

Closes == {1200, 1260, 9400, 9500, 10000, 10300, 10500, 10600}

Quote(date, close) == [date |-> date, close |-> close]

SeqsUpTo(S, n) == UNION {[1..k -> S] : k \in 0..n}

Pad(item, n) == [i \in 1..n |-> item]

\* a daily series has one record per date key
AllSeries(n) ==
    { s \in SeqsUpTo({Quote(d, c) : d \in 0..n, c \in Closes}, n + 1) :
        \A i, j \in 1..Len(s) : i # j => s[i].date # s[j].date }

LoadedStates(t) ==
    { [kind |-> "obj", lastCheck |-> l] : l \in 0..t }
        \cup { [kind |-> "value", lastCheck |-> NoTime] }

StateFiles(t) ==
    { FileOf(k, NoTime) : k \in {"missing", "unreadable", "malformed", "null",
                                 "number", "emptyobj"} }
        \cup { FileOf("obj", l) : l \in 0..t }

----------------------------------------------------------------------------
(* The monitor under a scheduler: a few feeds, every run outcome *)

RunInsiderFeeds ==
    { << >>,
      << Form4(1, KR, << "1", "5", "0", "0" >>, TRUE),
         Form4(2, << "Aman", "Joshi" >>, << "5", "0", "0", "0" >>, TRUE) >> }

RunFilingsFeeds ==
    { << Filing("8-K", 1, << "Press", "Release" >>) >>,
      << Filing("10-Q", 1, NoDesc), Filing("8-K", 0, << "earnings", "call" >>) >> }

RunNewsFeeds ==
    { << Article(<< "story" >>, -5) >>,
      << Article(<< "story" >>, 50), Article(<< "story" >>, -31) >> }

RunPriceFeeds ==
    { << Quote(1, 10300), Quote(0, 10000) >>,
      << Quote(0, 10000), Quote(1, 10600) >> }

InitRun ==
    /\ pc = "idle"
    /\ state = NoState
    /\ alerts = << >>
    /\ returned = NoReturn
    /\ errLog = {}
    /\ mailbox = << >>
    /\ runNo = 0

Init ==
    /\ InitRun
    /\ now = TicksPerDay
    /\ stateFile \in StateFiles(TicksPerDay)
    /\ insiderFeed \in RunInsiderFeeds
    /\ filingsFeed \in RunFilingsFeeds
    /\ newsFeed \in RunNewsFeeds
    /\ priceFeed \in RunPriceFeeds

Spec == Init /\ [][Next]_vars

----------------------------------------------------------------------------
(* One checker on every feed within the bounds *)

InitChecker(at) ==
    /\ pc = at
    /\ now \in TicksPerDay..MaxTime
    /\ state \in LoadedStates(now)
    /\ stateFile = FileOf("missing", NoTime)
    /\ alerts = << >>
    /\ returned = NoReturn
    /\ errLog = {}
    /\ mailbox = << >>
    /\ runNo = 1

InitInsider ==
    /\ InitChecker("insider")
    /\ \E n \in {0, INSIDER_LIMIT - 1, INSIDER_LIMIT} :
       \E tail \in SeqsUpTo(InsiderItems, MaxTail) :
          insiderFeed = Pad(OtherItem, n) \o tail
    /\ filingsFeed = << >>
    /\ newsFeed = << >>
    /\ priceFeed = << >>

SpecInsider == InitInsider /\ [][StepInsider]_vars

InitFilings ==
    /\ InitChecker("filings")
    /\ insiderFeed = << >>
    /\ filingsFeed \in SeqsUpTo(FilingEntries, MaxTail)
    /\ newsFeed = << >>
    /\ priceFeed = << >>

SpecFilings == InitFilings /\ [][StepFilings]_vars

InitNews ==
    /\ InitChecker("news")
    /\ insiderFeed = << >>
    /\ filingsFeed = << >>
    /\ \E n \in {0, NEWS_LIMIT - 1, NEWS_LIMIT} :
       \E tail \in SeqsUpTo(Articles, MaxTail) :
          newsFeed = Pad(Filler, n) \o tail
    /\ priceFeed = << >>

SpecNews == InitNews /\ [][StepNews]_vars

InitPrice ==
    /\ InitChecker("price")
    /\ insiderFeed = << >>
    /\ filingsFeed = << >>
    /\ newsFeed = << >>
    /\ priceFeed \in AllSeries(MaxTail)

SpecPrice == InitPrice /\ [][StepPrice]_vars

----------------------------------------------------------------------------
(* Claims *)

Checkers == {"insider", "filings", "news", "price"}

AfterCheckers == {"notify", "save", "done"}

MailsOfRun(r) == { i \in 1..Len(mailbox) : mailbox[i].run = r }

\* a step that leaves position p
Leaves(p) == pc = p /\ pc' # p

\* the step out of "save" writes the current time and ends the run
SaveWritesNow == Leaves("save") => stateFile' = FileOf("obj", now) /\ pc' = "done"

\* past the checkers nothing stops the run short of saveState
RunCanGoOn ==
    /\ pc = "notify" => ENABLED StepNotify
    /\ pc = "save" => ENABLED StepSave

\* C1: whatever subset of the checkers fails during a run, the run completes,
\* saveState writes a new lastCheck, and each failing checker contributes zero
\* alerts to the digest, also when it fails after it found qualifying entries.
C1_FailingCheckerContributesNothing ==
    \A c \in Checkers :
        c \in errLog =>
            /\ pc # "crashed"
            /\ returned[c] = << >>
            /\ pc = "done" => stateFile.kind = "obj" /\ stateFile.lastCheck <= now

\* C2: a state file that is missing, unreadable or malformed, or that parses
\* to something that is no object with a lastCheck (null, {}, a number), makes
\* loadState return a lastCheck 24 hours before now, and the run does not raise.
C2_LoadStateFallsBack ==
    (runNo > 0 /\ stateFile.kind # "obj") =>
        /\ pc # "crashed"
        /\ state.kind = "obj"
        /\ state.lastCheck >= 0
        /\ state.lastCheck <= now - TicksPerDay

\* C3: in a run where all four checkers return zero alerts, sendEmail is not
\* called, and the run still ends by overwriting the state file with the
\* current time, whatever the alerts were.
C3_QuietRunSendsNothingAndSaves ==
    /\ [](pc \in AfterCheckers /\ (\A c \in Checkers : returned[c] = << >>)
            => MailsOfRun(runNo) = {} /\ RunCanGoOn)
    /\ [][/\ Leaves("notify") /\ (\A c \in Checkers : returned[c] = << >>)
                => mailbox' = mailbox /\ pc' = "save"
          /\ SaveWritesNow]_vars

C3_Witness ==
    /\ pc = "done"
    /\ errLog = {}
    /\ \A c \in Checkers : returned[c] = << >>
    /\ MailsOfRun(runNo) = {}
    /\ state.kind = "obj"
    /\ stateFile = FileOf("obj", now)
    /\ stateFile.lastCheck > state.lastCheck

\* C4: in a run with at least one alert, a failing mail delivery is caught
\* inside sendEmail: the run goes on to saveState, which persists the new
\* lastCheck.
C4_MailFailureDoesNotStopTheRun ==
    /\ [](\A i \in MailsOfRun(runNo) :
            ~mailbox[i].delivered =>
                /\ "email" \in errLog
                /\ pc \in {"save", "done"}
                /\ pc = "done" => stateFile.kind = "obj" /\ stateFile.lastCheck <= now
                /\ RunCanGoOn)
    /\ [][/\ Leaves("notify") /\ Len(alerts) > 0
                => pc' = "save" /\ Len(mailbox') = Len(mailbox) + 1
          /\ SaveWritesNow]_vars

C4_Witness ==
    /\ pc = "done"
    /\ Len(alerts) > 0
    /\ \E i \in MailsOfRun(runNo) : ~mailbox[i].delivered
    /\ "email" \in errLog
    /\ stateFile = FileOf("obj", now)

\* C9: a run sends at most one notification; its body lists every alert the
\* checkers returned exactly once, in the order insider, filings, news, price
\* and in each checker's own order; it is sent after all four checkers have
\* finished and before the state file is written.
C9_OneDigestInCheckerOrder ==
    /\ [](/\ \A r \in 1..runNo : Cardinality(MailsOfRun(r)) <= 1
          /\ \A i \in MailsOfRun(runNo) :
                /\ pc \in {"save", "done"}
                /\ mailbox[i].body = returned.insider \o returned.filings
                                        \o returned.news \o returned.price)
    /\ [][/\ mailbox' # mailbox => pc = "notify" /\ pc' = "save"
          /\ stateFile' # stateFile => pc = "save"
          /\ pc' = "save" => pc \in {"notify", "save"}]_vars

C9_Witness ==
    /\ pc = "done"
    /\ \E i \in MailsOfRun(runNo) :
          /\ Len(mailbox[i].body) >= 5
          /\ mailbox[i].body[1].cat = "INSIDER"
          /\ mailbox[i].body[2].cat = "INSIDER"
          /\ mailbox[i].body[3].cat = "FILING"
          /\ mailbox[i].body[4].cat = "NEWS"
          /\ mailbox[i].body[5].cat = "NEWS"
          /\ mailbox[i].body[Len(mailbox[i].body)].cat = "PRICE"

Range(seq) == { seq[i] : i \in 1..Len(seq) }

DayOf(t) == t \div TicksPerDay

\* C10: the insider and filings checkers window on lastCheck's calendar date
\* only.  For the same feed, two lastCheck values of one day give the same
\* alerts, and an entry dated on lastCheck's day is new: a qualifying filing
\* dated today is alerted again by every successful run of that day.
C10_DayGranularity ==
    /\ pc = "idle" =>
        \A t1, t2 \in 0..MaxTime :
          DayOf(t1) = DayOf(t2) =>
              /\ \A failAt \in {NoFail} \cup (0..Len(insiderFeed)) :
                    checkInsiderTransactions(insiderFeed, t1, now, failAt)
                        = checkInsiderTransactions(insiderFeed, t2, now, failAt)
              /\ checkEarningsFilings(filingsFeed, t1, now, FALSE)
                    = checkEarningsFilings(filingsFeed, t2, now, FALSE)
    /\ (pc \in {"filings", "news", "price"} \cup AfterCheckers
            /\ state.kind = "obj" /\ "insider" \notin errLog) =>
          \A i \in 1..Min(Len(insiderFeed), INSIDER_LIMIT) :
              LET item == insiderFeed[i]
              IN  (/\ item.xbrl /\ item.form4
                   /\ item.date8 = DayOf(state.lastCheck)
                   /\ Abs(ParseShares(item.shareText)) > SHARE_THRESHOLD
                   /\ \E s \in STAKEHOLDERS : Includes(item.owner, s))
                    => \E a \in Range(returned.insider) :
                          a.cat = "INSIDER" /\ a.text = item.owner
    /\ (pc \in {"news", "price"} \cup AfterCheckers
            /\ state.kind = "obj" /\ "filings" \notin errLog) =>
          \A i \in 1..Len(filingsFeed) :
              LET entry == filingsFeed[i]
              IN  (entry.date = DayOf(state.lastCheck) /\ entry.form = "10-Q")
                    => \E a \in Range(returned.filings) :
                          a.cat = "FILING" /\ a.label = "10-Q" /\ a.date = entry.date

\* the second run of a day loads the lastCheck the first one saved and alerts
\* the same filing again
C10_Witness ==
    /\ runNo = 2
    /\ pc = "done"
    /\ errLog = {}
    /\ Len(mailbox) = 2
    /\ mailbox[1].run = 1
    /\ mailbox[2].run = 2
    /\ state.kind = "obj"
    /\ DayOf(state.lastCheck) = DayOf(now)
    /\ \E i \in 1..Len(filingsFeed) :
          /\ filingsFeed[i].date = DayOf(now)
          /\ FilingAlert(filingsFeed[i]) \in Range(mailbox[1].body)
          /\ FilingAlert(filingsFeed[i]) \in Range(mailbox[2].body)
    /\ \E i \in 1..Len(insiderFeed) :
          /\ insiderFeed[i].date8 = DayOf(now)
          /\ InsiderAlert(insiderFeed[i]) \in Range(mailbox[1].body)
          /\ InsiderAlert(insiderFeed[i]) \in Range(mailbox[2].body)

\* the day the windowed checkers compare against
WindowDay == IF state.kind = "obj" THEN DayOf(state.lastCheck) ELSE DayOf(now)

\* C5: checkStockPrice compares the two most recent date keys only and emits
\* exactly one alert iff the absolute percent change from the prior close to
\* the latest close is at least 5.0% (exactly 5.0% alerts), up for a rise and
\* down for a fall, and none otherwise, whatever lastCheck is: 100.00 -> 106.00
\* gives one up alert of 6.00%, 100.00 -> 103.00 gives none.
C5_PriceMoveOfFivePercent ==
    pc = "notify" =>
        /\ "price" \in errLog => returned.price = << >>
        /\ "price" \notin errLog =>
            \E i, j \in 1..Len(priceFeed) :
                /\ i # j
                /\ \A k \in 1..Len(priceFeed) : priceFeed[k].date <= priceFeed[i].date
                /\ \A k \in 1..Len(priceFeed) : k # i => priceFeed[k].date <= priceFeed[j].date
                /\ LET latest == priceFeed[i].close
                       prior  == priceFeed[j].close
                       moved  == 100 * Abs(latest - prior) >= 5 * prior
                   IN  /\ Len(returned.price) = IF moved THEN 1 ELSE 0
                       /\ moved =>
                            /\ returned.price[1].cat = "PRICE"
                            /\ returned.price[1].label = "UP" <=> latest > prior
                            /\ returned.price[1].label = "DOWN" <=> latest < prior
                            /\ returned.price[1].close = latest
                            /\ returned.price[1].date = priceFeed[i].date
                       /\ (prior = 10000 /\ latest = 10600) =>
                            returned.price[1].label = "UP" /\ returned.price[1].num = 600
                       /\ (prior = 10000 /\ latest = 10500) => returned.price[1].num = 500
                       /\ (prior = 10000 /\ latest = 9400) =>
                            returned.price[1].label = "DOWN" /\ returned.price[1].num = -600
                       /\ (prior = 10000 /\ latest = 10300) => returned.price = << >>

MentionsEarnings(desc) ==
    /\ desc # NoDesc
    /\ \E k \in 1..Len(desc) : desc[k] \in {"earnings", "Earnings", "EARNINGS"}

\* C6: checkEarningsFilings, for every index whose filing date is on or after
\* lastCheck's date, alerts a 10-Q whatever its description (also a missing
\* one), alerts an 8-K iff its description contains "earnings" in any case,
\* and alerts no other form; a filing dated before lastCheck's date never
\* alerts.
C6_FilingRule ==
    (pc = "news" /\ "filings" \notin errLog) =>
        LET Wanted(entry) ==
                /\ entry.date >= WindowDay
                /\ \/ entry.form = "10-Q"
                   \/ entry.form = "8-K" /\ MentionsEarnings(entry.desc)
            want == SelectSeq(filingsFeed, Wanted)
        IN  /\ Len(returned.filings) = Len(want)
            /\ \A k \in 1..Len(want) :
                  /\ returned.filings[k].cat = "FILING"
                  /\ returned.filings[k].label = want[k].form
                  /\ returned.filings[k].date = want[k].date

C6_Witness ==
    /\ pc = "news"
    /\ "filings" \notin errLog
    /\ state.kind = "obj"
    /\ DayOf(state.lastCheck) = 1
    /\ filingsFeed = << Filing("8-K", 1, << "EARNINGS" >>), Filing("10-Q", 1, NoDesc) >>
    /\ Len(returned.filings) = 2
    /\ returned.filings[2] = Alert("FILING", "10-Q", << >>, 0, 0, 1)

C8_NewsRule ==
    (pc = "price" /\ "news" \notin errLog) =>
        LET first == [i \in 1..(IF Len(newsFeed) > 10 THEN 10 ELSE Len(newsFeed))
                        |-> newsFeed[i]]
            Strong(a) == a.compound > 30 \/ a.compound < -30
            want == SelectSeq(first, Strong)
        IN  /\ Len(returned.news) = Len(want)
            /\ Len(returned.news) <= 10
            /\ \A k \in 1..Len(want) :
                  /\ returned.news[k].cat = "NEWS"
                  /\ returned.news[k].text = want[k].title
                  /\ returned.news[k].label
                        = IF want[k].compound > 0 THEN "POSITIVE" ELSE "NEGATIVE"

\* the tenth article is strongly negative and alerts, the eleventh is strongly
\* positive and does not
C8_Witness ==
    /\ pc = "price"
    /\ "news" \notin errLog
    /\ Len(newsFeed) = 11
    /\ newsFeed[10].compound = -50
    /\ newsFeed[11].compound = 50
    /\ Len(returned.news) = 10
    /\ returned.news[10].label = "NEGATIVE"

====
